---- MODULE Spec2Model ----
(***************************************************************************)
(* A model of the film search engine: the query interpreter                *)
(* (film_search/query.py), the index builder (film_search/indexer.py) and  *)
(* the ranking engine (film_search/search.py), with the command surface    *)
(* (film_search/cli.py) that drives them.                                  *)
(*                                                                         *)
(* Strings are TLA+ strings; a character is a string of length one.        *)
(* Python's None is the empty tuple <<>> and a present integer x is <<x>>. *)
(***************************************************************************)
EXTENDS Integers, Sequences, FiniteSets, TLC

VARIABLES
    raw,        \* the text typed at the command surface
    nwords,     \* how many words of it have been typed
    pq,         \* parse_query's result for raw, or NotParsed
    dataset,    \* the dataset adapter's table: the records, in row order
    disk,       \* the file index/index.joblib: absent, or the bytes written
    bpc,        \* the builder's position in build_index
    bmem,       \* the builder's in-memory IndexBundle
    spc,        \* the searcher's position
    query,      \* the structured query handed to search
    topk,       \* search's top_k
    lib,        \* what the libraries returned during the last search
    res         \* the last search's outcome

vars == <<raw, nwords, pq, dataset, disk, bpc, bmem, spc, query, topk, lib, res>>

parseVars == <<raw, nwords, pq>>
buildVars == <<dataset, disk, bpc, bmem>>
searchVars == <<spc, query, topk, lib, res>>

(***************************************************************************)
(* Characters and strings                                                  *)
(***************************************************************************)

DigitChars == {"0", "1", "2", "3", "4", "5", "6", "7", "8", "9"}

DigitMap ==
    ("0" :> 0) @@ ("1" :> 1) @@ ("2" :> 2) @@ ("3" :> 3) @@ ("4" :> 4) @@
    ("5" :> 5) @@ ("6" :> 6) @@ ("7" :> 7) @@ ("8" :> 8) @@ ("9" :> 9)

LowerMap ==
    ("A" :> "a") @@ ("B" :> "b") @@ ("C" :> "c") @@ ("D" :> "d") @@
    ("E" :> "e") @@ ("F" :> "f") @@ ("G" :> "g") @@ ("H" :> "h") @@
    ("I" :> "i") @@ ("J" :> "j") @@ ("K" :> "k") @@ ("L" :> "l") @@
    ("M" :> "m") @@ ("N" :> "n") @@ ("O" :> "o") @@ ("P" :> "p") @@
    ("Q" :> "q") @@ ("R" :> "r") @@ ("S" :> "s") @@ ("T" :> "t") @@
    ("U" :> "u") @@ ("V" :> "v") @@ ("W" :> "w") @@ ("X" :> "x") @@
    ("Y" :> "y") @@ ("Z" :> "z")

LowerChars ==
    {"a", "b", "c", "d", "e", "f", "g", "h", "i", "j", "k", "l", "m",
     "n", "o", "p", "q", "r", "s", "t", "u", "v", "w", "x", "y", "z"}

\* \w of Python's re
WordChars == LowerChars \cup DOMAIN LowerMap \cup DigitChars \cup {"_"}

\* \s of Python's re, and what str.strip() removes
SpaceChars == {" ", "\t", "\n"}

\* the i-th character of s, "" outside it
Ch(s, i) == IF i >= 1 /\ i <= Len(s) THEN SubSeq(s, i, i) ELSE ""

\* s[i:] of Python, i counted from 1
From(s, i) == IF i > Len(s) THEN "" ELSE SubSeq(s, i, Len(s))

LowerCh(c) == IF c \in DOMAIN LowerMap THEN LowerMap[c] ELSE c

RECURSIVE Lower(_)
\* str.lower()
Lower(s) == IF s = "" THEN "" ELSE LowerCh(Ch(s, 1)) \o Lower(From(s, 2))

RECURSIVE SkipWhile(_, _, _)
\* the position after the longest run of Class characters that starts at i
SkipWhile(s, i, Class) ==
    IF i <= Len(s) /\ Ch(s, i) \in Class THEN SkipWhile(s, i + 1, Class) ELSE i

RECURSIVE SkipBack(_, _, _)
\* the position before the longest run of Class characters that ends at i
SkipBack(s, i, Class) ==
    IF i >= 1 /\ Ch(s, i) \in Class THEN SkipBack(s, i - 1, Class) ELSE i

\* str.strip()
Strip(s) ==
    LET a == SkipWhile(s, 1, SpaceChars)
        b == SkipBack(s, Len(s), SpaceChars)
    IN  IF a > b THEN "" ELSE SubSeq(s, a, b)

\* whether s[i:] starts with lit
StartsAt(s, i, lit) ==
    /\ i >= 1
    /\ i + Len(lit) - 1 <= Len(s)
    /\ SubSeq(s, i, i + Len(lit) - 1) = lit

\* Python's `needle in hay`
Contains(hay, needle) ==
    \E i \in 1..(Len(hay) - Len(needle) + 1) : StartsAt(hay, i, needle)

RECURSIVE ReplaceFrom(_, _, _, _)
ReplaceFrom(s, i, k, v) ==
    IF i > Len(s) THEN ""
    ELSE IF StartsAt(s, i, k) THEN v \o ReplaceFrom(s, i + Len(k), k, v)
    ELSE Ch(s, i) \o ReplaceFrom(s, i + 1, k, v)

\* str.replace(k, v) for a non-empty k: left to right, without overlap
Replace(s, k, v) == ReplaceFrom(s, 1, k, v)

IsNumeral(s) == s # "" /\ \A i \in 1..Len(s) : Ch(s, i) \in DigitChars

RECURSIVE IntOf(_)
\* int(s) of a string of digits
IntOf(s) ==
    IF s = "" THEN 0
    ELSE 10 * IntOf(SubSeq(s, 1, Len(s) - 1)) + DigitMap[Ch(s, Len(s))]

\* whether s holds only whitespace
IsBlank(s) == \A i \in 1..Len(s) : Ch(s, i) \in SpaceChars

None == <<>>
Some(x) == <<x>>

(***************************************************************************)
(* The query interpreter: film_search/query.py                             *)
(***************************************************************************)

GENRE_SYNONYMS ==
    << <<"sci fi", "science fiction">>,
       <<"sci-fi", "science fiction">>,
       <<"scifi", "science fiction">>,
       <<"romcom", "romance,comedy">>,
       <<"kid", "family">>,
       <<"kids", "family">> >>

\* ALL_GENRES in the order sorted() gives its members
ALL_GENRES ==
    << "action", "adventure", "animation", "comedy", "crime", "documentary",
       "drama", "family", "fantasy", "history", "horror", "music", "mystery",
       "romance", "sci-fi", "science fiction", "thriller", "war", "western" >>

\* a literal of a pattern compiled with re.I
LitAt(s, i, lit) ==
    /\ i >= 1
    /\ i + Len(lit) - 1 <= Len(s)
    /\ Lower(SubSeq(s, i, i + Len(lit) - 1)) = lit

\* \d{n} at i
DigitsAt(s, i, n) == \A k \in 0..(n - 1) : Ch(s, i + k) \in DigitChars

\* \b before the i-th character
WordBoundary(s, i) == (Ch(s, i - 1) \in WordChars) # (Ch(s, i) \in WordChars)

\* re.search: the leftmost of the positions S where the pattern matches, 0
\* when there is none
FirstPos(S) == IF S = {} THEN 0 ELSE CHOOSE p \in S : \A r \in S : p <= r

\* [-to] under re.I
RangeJoinChars == {"-", "t", "o", "T", "O"}

\* where the second year of YEAR_RANGE_RE starts, for a match that starts at p
YearRangeSecond(s, p) ==
    SkipWhile(s, SkipWhile(s, SkipWhile(s, p + 4, SpaceChars), RangeJoinChars),
              SpaceChars)

\* YEAR_RANGE_RE = (\d{4})\s*[-to]+\s*(\d{4})
YearRangeAt(s, p) ==
    LET j == SkipWhile(s, p + 4, SpaceChars)
        k == SkipWhile(s, j, RangeJoinChars)
    IN  /\ DigitsAt(s, p, 4)
        /\ k > j
        /\ DigitsAt(s, YearRangeSecond(s, p), 4)

\* one alternative of DECADE_RE: \b(\d{n})s\b, or \b(\d{n})'s\b
DecadeAltAt(s, p, n, suffix) ==
    /\ WordBoundary(s, p)
    /\ DigitsAt(s, p, n)
    /\ LitAt(s, p + n, suffix)
    /\ WordBoundary(s, p + n + Len(suffix))

\* DECADE_RE = \b(\d{2})s\b|\b(\d{4})s\b|\b(\d{2})'s\b|\b(\d{4})'s\b
DecadeAt(s, p) ==
    \/ DecadeAltAt(s, p, 2, "s")
    \/ DecadeAltAt(s, p, 4, "s")
    \/ DecadeAltAt(s, p, 2, "'s")
    \/ DecadeAltAt(s, p, 4, "'s")

\* a variant that hands the whole match, suffix included, to int()
DecadeGroup_WholeMatch(s, p) ==
    IF DecadeAltAt(s, p, 2, "s") THEN SubSeq(s, p, p + 2)
    ELSE IF DecadeAltAt(s, p, 4, "s") THEN SubSeq(s, p, p + 4)
    ELSE IF DecadeAltAt(s, p, 2, "'s") THEN SubSeq(s, p, p + 3)
    ELSE SubSeq(s, p, p + 5)

\* the group of DECADE_RE that took part in the match at p
DecadeGroup(s, p) ==
    IF DecadeAltAt(s, p, 2, "s") THEN SubSeq(s, p, p + 1)
    ELSE IF DecadeAltAt(s, p, 4, "s") THEN SubSeq(s, p, p + 3)
    ELSE IF DecadeAltAt(s, p, 2, "'s") THEN SubSeq(s, p, p + 1)
    ELSE SubSeq(s, p, p + 3)

\* (early|late) at p: the text it matched, "" when it does not match
EarlyLateWord(s, p) ==
    IF LitAt(s, p, "early") THEN SubSeq(s, p, p + 4)
    ELSE IF LitAt(s, p, "late") THEN SubSeq(s, p, p + 3)
    ELSE ""

\* one alternative of EARLY_LATE_RE: (early|late)\s*(\d{n})s\b
EarlyLateAltAt(s, p, n) ==
    LET w == EarlyLateWord(s, p)
        j == SkipWhile(s, p + Len(w), SpaceChars)
    IN  /\ w # ""
        /\ DigitsAt(s, j, n)
        /\ LitAt(s, j + n, "s")
        /\ WordBoundary(s, j + n + 1)

\* EARLY_LATE_RE = (early|late)\s*(\d{2})s\b|(early|late)\s*(\d{4})s\b
EarlyLateAt(s, p) == EarlyLateAltAt(s, p, 2) \/ EarlyLateAltAt(s, p, 4)

\* the digits group of EARLY_LATE_RE for the match at p
EarlyLateDigits(s, p) ==
    LET j == SkipWhile(s, p + Len(EarlyLateWord(s, p)), SpaceChars)
    IN  IF EarlyLateAltAt(s, p, 2) THEN SubSeq(s, j, j + 1)
        ELSE SubSeq(s, j, j + 3)

\* YEAR_SINGLE_RE = \b(19\d{2}|20\d{2})\b
YearSingleAt(s, p) ==
    /\ WordBoundary(s, p)
    /\ StartsAt(s, p, "19") \/ StartsAt(s, p, "20")
    /\ DigitsAt(s, p + 2, 2)
    /\ WordBoundary(s, p + 4)

RECURSIVE NormalizeFrom(_, _)
NormalizeFrom(q, i) ==
    IF i > Len(GENRE_SYNONYMS) THEN q
    ELSE NormalizeFrom(Replace(q, GENRE_SYNONYMS[i][1], GENRE_SYNONYMS[i][2]),
                       i + 1)

\* _normalize_text
NormalizeText(q) == NormalizeFrom(Lower(Strip(q)), 1)

\* a result of _parse_decade and _parse_years: no bounds, the bounds, or the
\* ValueError int() raises on text that is no numeral
NoYears == [tag |-> "none", lo |-> 0, hi |-> 0]
Years(a, b) == [tag |-> "some", lo |-> a, hi |-> b]
YearsRaise == [tag |-> "raise", lo |-> 0, hi |-> 0]

\* a variant of the century rule that leaves a two-digit value as it is
DecadeStart_NoCentury(v_int) == v_int

\* the decade's first year: 1900 + v for a value below 100
DecadeStart(v_int) == IF v_int < 100 THEN 1900 + v_int ELSE v_int

\* _parse_decade, the early/late branch for the match at p
EarlyLateSpan(text, p) ==
    LET v == EarlyLateDigits(text, p)
        start == DecadeStart(IntOf(v))
    IN  IF ~IsNumeral(v) THEN YearsRaise
        ELSE IF Lower(EarlyLateWord(text, p)) = "early"
        THEN Years(start, start + 4)
        ELSE Years(start + 5, start + 9)

\* _parse_decade, the regular branch for the match at p
DecadeSpan(text, p) ==
    LET val == DecadeGroup(text, p)
        start == DecadeStart(IntOf(val))
    IN  IF ~IsNumeral(val) THEN YearsRaise ELSE Years(start, start + 9)

\* _parse_decade
ParseDecade(text) ==
    LET m2 == FirstPos({p_ \in 1..Len(text) : EarlyLateAt(text, p_)})
        m == FirstPos({p_ \in 1..Len(text) : DecadeAt(text, p_)})
    IN  IF m2 # 0 THEN EarlyLateSpan(text, m2)
        ELSE IF m # 0 THEN DecadeSpan(text, m)
        ELSE NoYears

\* a variant of the range branch that keeps the bounds in the order written
RangeSpan_NoSwap(text, p) ==
    LET ga == SubSeq(text, p, p + 3)
        l == YearRangeSecond(text, p)
        gb == SubSeq(text, l, l + 3)
    IN  IF ~IsNumeral(ga) \/ ~IsNumeral(gb) THEN YearsRaise
        ELSE Years(IntOf(ga), IntOf(gb))

\* _parse_years, the explicit range for the match at p
RangeSpan(text, p) ==
    LET ga == SubSeq(text, p, p + 3)
        l == YearRangeSecond(text, p)
        gb == SubSeq(text, l, l + 3)
        a == IntOf(ga)
        b == IntOf(gb)
    IN  IF ~IsNumeral(ga) \/ ~IsNumeral(gb) THEN YearsRaise
        ELSE IF a > b THEN Years(b, a)
        ELSE Years(a, b)

\* _parse_years, the single year for the match at p
SingleSpan(text, p) ==
    LET y == SubSeq(text, p, p + 3)
    IN  IF ~IsNumeral(y) THEN YearsRaise ELSE Years(IntOf(y), IntOf(y))

\* _parse_years
ParseYears(text) ==
    LET m == FirstPos({p_ \in 1..Len(text) : YearRangeAt(text, p_)})
        m2 == ParseDecade(text)
        m3 == FirstPos({p_ \in 1..Len(text) : YearSingleAt(text, p_)})
    IN  IF m # 0 THEN RangeSpan(text, m)
        ELSE IF m2.tag # "none" THEN m2
        ELSE IF m3 # 0 THEN SingleSpan(text, m3)
        ELSE NoYears

PERSON_CUES == <<"starring", "with", "featuring", "by", "directed by">>

\* [\w\-\s\.] without the \s
NameChars == WordChars \cup {"-", "."}

\* the length of the cue of PERSON_HINT_RE that matches at p, 0 when none does
CueLen(s, p) ==
    LET C == {i \in 1..Len(PERSON_CUES) : LitAt(s, p, PERSON_CUES[i])}
    IN  IF C = {} THEN 0
        ELSE Len(PERSON_CUES[CHOOSE i \in C : \A j \in C : i <= j])

\* PERSON_HINT_RE = (starring|with|featuring|by|directed by)\s+([\w\-\s\.]+)
\* \s+ takes the whole run of spaces when a name character follows it, and
\* gives its last space to the second group otherwise
PersonAt(s, p) ==
    LET a == p + CueLen(s, p)
        e == SkipWhile(s, a, SpaceChars)
    IN  /\ CueLen(s, p) > 0
        /\ e > a
        /\ Ch(s, e) \in NameChars \/ e - a >= 2

\* where group 2 of the match at p starts
PersonNameStart(s, p) ==
    LET e == SkipWhile(s, p + CueLen(s, p), SpaceChars)
    IN  IF Ch(s, e) \in NameChars THEN e ELSE e - 1

\* where the match at p ends (the position after it)
PersonEnd(s, p) ==
    SkipWhile(s, PersonNameStart(s, p), NameChars \cup SpaceChars)

RECURSIVE PeopleFrom(_, _)
PeopleFrom(text, from) ==
    LET p == FirstPos({p_ \in from..Len(text) : PersonAt(text, p_)})
        name == Strip(SubSeq(text, PersonNameStart(text, p),
                             PersonEnd(text, p) - 1))
    IN  IF from > Len(text) \/ p = 0 THEN <<>>
        ELSE (IF name # "" THEN <<name>> ELSE <<>>)
             \o PeopleFrom(text, PersonEnd(text, p))

\* _extract_people
ExtractPeople(text) == PeopleFrom(text, 1)

RECURSIVE PersonSubFrom(_, _)
PersonSubFrom(text, from) ==
    LET p == FirstPos({p_ \in from..Len(text) : PersonAt(text, p_)})
    IN  IF from > Len(text) THEN ""
        ELSE IF p = 0 THEN From(text, from)
        ELSE (IF p > from THEN SubSeq(text, from, p - 1) ELSE "")
             \o " " \o PersonSubFrom(text, PersonEnd(text, p))

\* PERSON_HINT_RE.sub(" ", text)
PersonSub(text) == PersonSubFrom(text, 1)

\* _extract_genres
ExtractGenres(text) == SelectSeq(ALL_GENRES, LAMBDA g : Contains(text, g))

RECURSIVE RemoveGenres(_, _, _)
RemoveGenres(text, genres, i) ==
    IF i > Len(genres) THEN text
    ELSE RemoveGenres(Replace(text, genres[i], " "), genres, i + 1)

\* parse_query; raised says that an exception left it
ParseQuery(q) ==
    LET norm == NormalizeText(q)
        yrs == ParseYears(norm)
        genres == ExtractGenres(norm)
        people == ExtractPeople(q)
        cleaned == PersonSub(RemoveGenres(norm, genres, 1))
    IN  [raised |-> yrs.tag = "raise",
         raw |-> q,
         text |-> Strip(cleaned),
         year_from |-> IF yrs.tag = "some" THEN Some(yrs.lo) ELSE None,
         year_to |-> IF yrs.tag = "some" THEN Some(yrs.hi) ELSE None,
         genres |-> genres,
         people |-> people]

(***************************************************************************)
(* The dataset adapter's table and the index builder:                      *)
(* film_search/data.py, film_search/indexer.py                             *)
(*                                                                         *)
(* A table is [hasYear, rows]: hasYear says whether it has a year column   *)
(* (the TSV reader adds every expected column, the JSONL reader keeps the  *)
(* keys its lines hold). A rating is kept in tenths. Rows are counted from *)
(* 1, where Python counts them from 0.                                     *)
(***************************************************************************)

\* Series.str.cat(other, sep)
Cat(a, sep, b) == a \o sep \o b

\* build_canonical_text, for one row
CanonicalText(r) ==
    Cat(Cat(Cat(Cat(Cat(Cat(r.title, ". ", r.overview), ". ", r.genres),
                    ", ", r.tags), ", ", r.director), ", ", r.actors),
        ", ", r.characters)

RECURSIVE Times(_, _)
\* s * n of Python
Times(s, n) == IF n <= 0 THEN "" ELSE s \o Times(s, n - 1)

\* repeat_tokens of _apply_field_weights
RepeatTokens(s, times) ==
    IF s = "" THEN "" ELSE Times(" " \o s, IF times > 1 THEN times ELSE 1)

\* _apply_field_weights, for one row
WeightedText(r) ==
    CanonicalText(r) \o RepeatTokens(r.title, 2) \o RepeatTokens(r.genres, 2)
        \o RepeatTokens(r.director, 2) \o RepeatTokens(r.actors, 1)

\* project_fields_for_display, for one row
DisplayRow(r) ==
    [id |-> r.id, title |-> r.title, year |-> r.year, genres |-> r.genres,
     director |-> r.director, actors |-> r.actors, rating |-> r.rating,
     votes |-> r.votes, popularity |-> r.popularity]

\* a variant that stores the display rows in reverse order
ProjectFieldsForDisplay_Reversed(df) ==
    [hasYear |-> df.hasYear,
     rows |-> [i \in 1..Len(df.rows) |->
                  DisplayRow(df.rows[Len(df.rows) + 1 - i])]]

\* project_fields_for_display
ProjectFieldsForDisplay(df) ==
    [hasYear |-> df.hasYear,
     rows |-> [i \in 1..Len(df.rows) |-> DisplayRow(df.rows[i])]]

\* fit_transform and normalize: row i of the matrix is the vector of the
\* i-th weighted text, kept here as the text it was computed from
FitTransform(df) == [i \in 1..Len(df.rows) |-> WeightedText(df.rows[i])]

\* build_index up to the IndexBundle it builds in memory
BuildBundle(df) ==
    [vectorizer |-> "TfidfVectorizer",
     matrix |-> FitTransform(df),
     meta |-> ProjectFieldsForDisplay(df)]

\* what joblib.dump writes for a bundle, in the order it writes it
Pickle(bundle) == <<bundle.vectorizer, bundle.matrix, bundle.meta>>

\* whether the bytes of a file are a whole pickled bundle
IsWholePickle(chunks) == Len(chunks) = 3

\* what joblib.load returns for the bytes of a whole pickled bundle
Unpickle(chunks) ==
    [vectorizer |-> chunks[1], matrix |-> chunks[2], meta |-> chunks[3]]

(***************************************************************************)
(* The ranking engine: film_search/search.py                               *)
(*                                                                         *)
(* Scores are exact fractions. A text score counts in 1/SimMax, a fuzzy    *)
(* boost in 1/200, a metadata boost in 1/(100 * YearDen(q)) and a blended  *)
(* score in 1/ScoreDen(q); a normalized score is the pair <<n, d>> for     *)
(* n/d.                                                                    *)
(***************************************************************************)

\* the grid of the cosine similarities the vector-space model returns:
\* 0, 1/SimMax, ..., 1
SimMax == 1

\* the values fuzz.partial_ratio returns when neither string holds the other
PartialRatios == {0, 50}

\* yvals >= q.year_from, with fillna(0)
YearFromOK(q, meta, row) ==
    (q.year_from # None /\ meta.hasYear) =>
        (IF row.year = None THEN 0 ELSE row.year[1]) >= q.year_from[1]

\* yvals <= q.year_to, with fillna(9999)
YearToOK(q, meta, row) ==
    (q.year_to # None /\ meta.hasYear) =>
        (IF row.year = None THEN 9999 ELSE row.year[1]) <= q.year_to[1]

\* a variant of the category mask that lets every row through
GenreOK_AllRows(q, row) == TRUE

\* the category mask
GenreOK(q, row) ==
    q.genres # <<>> =>
        \E k \in 1..Len(q.genres) : Contains(Lower(row.genres), q.genres[k])

\* the person mask
PeopleOK(q, row) ==
    q.people # <<>> =>
        \E k \in 1..Len(q.people) :
            \/ Contains(Lower(row.director), Lower(q.people[k]))
            \/ Contains(Lower(row.actors), Lower(q.people[k]))

\* the mask of _filter_indices at one row
Mask(q, meta, row) ==
    /\ YearFromOK(q, meta, row)
    /\ YearToOK(q, meta, row)
    /\ GenreOK(q, row)
    /\ PeopleOK(q, row)

RECURSIVE Where(_, _, _)
\* np.where(mask)[0].tolist(): the rows the mask keeps, ascending from row i
Where(q, meta, i) ==
    IF i > Len(meta.rows) THEN <<>>
    ELSE (IF Mask(q, meta, meta.rows[i]) THEN <<i>> ELSE <<>>)
         \o Where(q, meta, i + 1)

\* _filter_indices
FilterIndices(q, bundle) == Where(q, bundle.meta, 1)

\* the text _text_score hands the vectorizer
QueryText(q) == IF q.text # "" THEN q.text ELSE q.raw

\* what the vector-space model may return for the rows idxs: any grid value,
\* and 0 for a text without a character of a token
SimChoices(q, idxs) ==
    LET S == {idxs[k] : k \in 1..Len(idxs)}
    IN  IF IsBlank(QueryText(q)) THEN {[i \in S |-> 0]}
        ELSE [S -> 0..SimMax]

\* fuzz.partial_ratio(a, b): 100 exactly when the shorter string is part of
\* the longer one, and with an empty string 100 exactly when both are empty
PartialRatioChoices(a, b) ==
    IF a = "" \/ b = "" THEN (IF a = b THEN {100} ELSE {0})
    ELSE IF Len(a) <= Len(b) /\ Contains(b, a) THEN {100}
    ELSE IF Len(b) < Len(a) /\ Contains(a, b) THEN {100}
    ELSE PartialRatios

\* a variant that lower-cases the title and not the query
RatioChoices_RawNotLowered(q, bundle, idxs) ==
    LET S == {idxs[k] : k \in 1..Len(idxs)}
    IN  IF Strip(q.raw) = "" THEN {[i \in S |-> 0]}
        ELSE {f \in [S -> PartialRatios \cup {0, 100}] :
                \A i \in S :
                    f[i] \in PartialRatioChoices(
                                q.raw, Lower(bundle.meta.rows[i].title))}

\* what fuzz.partial_ratio may return for the titles of the rows idxs; it is
\* not called for a blank query
RatioChoices(q, bundle, idxs) ==
    LET S == {idxs[k] : k \in 1..Len(idxs)}
    IN  IF Strip(q.raw) = "" THEN {[i \in S |-> 0]}
        ELSE {f \in [S -> PartialRatios \cup {0, 100}] :
                \A i \in S :
                    f[i] \in PartialRatioChoices(
                                Lower(q.raw), Lower(bundle.meta.rows[i].title))}

\* _text_score, in 1/SimMax
TextScore(q, bundle, candidate_idx, sim) ==
    [k \in 1..Len(candidate_idx) |-> sim[candidate_idx[k]]]

\* _fuzzy_boost, in 1/200
FuzzyBoost(q, bundle, candidate_idx, ratio) ==
    [k \in 1..Len(candidate_idx) |->
        IF Strip(q.raw) = "" THEN 0 ELSE ratio[candidate_idx[k]]]

\* range_size of _metadata_boost
RangeSize(q) == q.year_to[1] - q.year_from[1] + 1

\* the denominator the year bonus brings in: range_size when the bonus is
\* the linear one
YearDen(q) ==
    IF q.year_from # None /\ q.year_to # None /\ RangeSize(q) > 1
    THEN RangeSize(q) ELSE 1

Abs(x) == IF x < 0 THEN -x ELSE x

\* the genre bonus of _metadata_boost, in 1/100
GenreBoost(q, row) ==
    30 * Cardinality({k \in 1..Len(q.genres) :
                         Contains(Lower(row.genres), q.genres[k])})

\* the people bonus of _metadata_boost, in 1/100
PeopleBoost(q, row) ==
    40 * Cardinality({k \in 1..Len(q.people) :
                         \/ Contains(Lower(row.actors), Lower(q.people[k]))
                         \/ Contains(Lower(row.director), Lower(q.people[k]))})

\* the year bonus of _metadata_boost, in 1/(100 * YearDen(q)):
\* 0.2 * (1 - distance / (range_size / 2)) with distance = |year - mid_year|
YearBoost(q, meta, row) ==
    IF q.year_from = None \/ q.year_to = None THEN 0
    ELSE IF ~meta.hasYear \/ row.year = None THEN 0
    ELSE IF RangeSize(q) > 1
    THEN 20 * (RangeSize(q)
               - Abs(2 * row.year[1] - q.year_from[1] - q.year_to[1]))
    ELSE 20

\* the rating bonus of _metadata_boost, in 1/100
RatingBoost(row) ==
    IF row.rating # None /\ row.votes # None
       /\ row.rating[1] >= 70 /\ row.votes[1] >= 1000
    THEN 15 ELSE 0

\* a rating or vote count that is present and is no number: float() and
\* int() raise ValueError on it
Unparseable == <<0, 0>>

\* the rating step of _metadata_boost raises at this row: float(rating) is
\* called when neither value is missing, int(votes) when the rating is
\* at least 7.0
RatingRaises(row) ==
    /\ row.rating # None
    /\ row.votes # None
    /\ \/ row.rating = Unparseable
       \/ row.rating[1] >= 70 /\ row.votes = Unparseable

\* _metadata_boost raises: nothing catches the exception of one row
MetadataBoostRaises(q, bundle, candidate_idx) ==
    \E k \in 1..Len(candidate_idx) :
        RatingRaises(bundle.meta.rows[candidate_idx[k]])

\* _metadata_boost, in 1/(100 * YearDen(q))
MetadataBoost(q, bundle, candidate_idx) ==
    [k \in 1..Len(candidate_idx) |->
        LET row == bundle.meta.rows[candidate_idx[k]]
        IN  YearDen(q) * (GenreBoost(q, row) + PeopleBoost(q, row)
                          + RatingBoost(row))
            + YearBoost(q, bundle.meta, row)]

\* the denominator of a blended score
ScoreDen(q) == 1000 * SimMax * YearDen(q)

\* sims = text_scores * 0.4 + fuzzy_scores * 0.2 + metadata_scores * 0.4,
\* in 1/ScoreDen(q)
Blend(q, text_scores, fuzzy_scores, metadata_scores) ==
    [k \in 1..Len(text_scores) |->
        400 * YearDen(q) * text_scores[k]
        + SimMax * YearDen(q) * fuzzy_scores[k]
        + 4 * SimMax * metadata_scores[k]]

\* sims.max()
MaxOf(sims) ==
    CHOOSE m \in {sims[k] : k \in 1..Len(sims)} :
        \A k \in 1..Len(sims) : sims[k] <= m

\* a variant that leaves the blended scores as they are
Normalize_Skipped(sims, den) == [k \in 1..Len(sims) |-> <<sims[k], den>>]

\* if len(sims) > 0 and sims.max() > 0: sims = sims / sims.max()
Normalize(sims, den) ==
    IF Len(sims) > 0 /\ MaxOf(sims) > 0
    THEN [k \in 1..Len(sims) |-> <<sims[k], MaxOf(sims)>>]
    ELSE [k \in 1..Len(sims) |-> <<sims[k], den>>]

\* what np.argsort(-sims) may return: a permutation that puts the scores in
\* descending order; its default sort does not say where equal scores go
ArgsortChoices(sims) ==
    {o \in [1..Len(sims) -> 1..Len(sims)] :
        /\ \A a, b \in 1..Len(sims) : a # b => o[a] # o[b]
        /\ \A a \in 1..(Len(sims) - 1) : sims[o[a]] >= sims[o[a + 1]]}

\* order[:top_k] for a top_k >= 0
Truncate(order, top_k) ==
    SubSeq(order, 1, IF top_k < Len(order) THEN top_k ELSE Len(order))

\* the SearchResult search builds for one rank
MakeResult(bundle, idxs, sims, rank) ==
    LET i == idxs[rank]
        row == bundle.meta.rows[i]
    IN  [idx |-> i,
         movie_id |-> row.id,
         title |-> row.title,
         year |-> IF bundle.meta.hasYear THEN row.year ELSE None,
         genres |-> row.genres,
         director |-> row.director,
         actors |-> row.actors,
         score |-> sims[rank]]

\* the blended scores of search before it normalizes them
Blended(q, bundle, idxs, l) ==
    Blend(q, TextScore(q, bundle, idxs, l.sim),
          FuzzyBoost(q, bundle, idxs, l.ratio),
          MetadataBoost(q, bundle, idxs))

\* search after load_index, given what the libraries returned
Rank(q, top_k, bundle, l) ==
    LET idxs == FilterIndices(q, bundle)
        sims == Normalize(Blended(q, bundle, idxs, l), ScoreDen(q))
        order == Truncate(l.order, top_k)
    IN  IF Len(idxs) = 0 THEN <<>>
        ELSE [k \in 1..Len(order) |-> MakeResult(bundle, idxs, sims, order[k])]

\* what the libraries may return during search(q) on a bundle
LibChoices(q, bundle) ==
    LET idxs == FilterIndices(q, bundle)
        Sorted(sm, rt) ==
            ArgsortChoices(Blended(q, bundle, idxs,
                                   [sim |-> sm, ratio |-> rt]))
    IN  UNION {UNION {{[sim |-> sm, ratio |-> rt, order |-> o] :
                          o \in Sorted(sm, rt)} :
                      rt \in RatioChoices(q, bundle, idxs)} :
               sm \in SimChoices(q, idxs)}

(***************************************************************************)
(* The catalogs and the structured queries of the model                    *)
(***************************************************************************)

Rec(id, title, genres, director, actors, year, rating, votes) ==
    [id |-> id, title |-> title, overview |-> "", tags |-> "",
     genres |-> genres, director |-> director, actors |-> actors,
     characters |-> "", year |-> year, votes |-> votes, rating |-> rating,
     popularity |-> None]

\* a table as the TSV reader gives it: one rated record, one with a
\* capitalized category field, one without year or rating
CatalogA ==
    [hasYear |-> TRUE,
     rows |-> << Rec(7, "Alien", "Drama, War", "Al Roe", "Bo Lee",
                     Some(1995), Some(81), Some(2000)),
                 Rec(3, "Heat", "Crime", "Cy Dow", "Albert Fox",
                     Some(1995), Some(60), Some(500)),
                 Rec(9, "Up", "drama", "", "", None, None, None) >>]

\* a table as the JSONL reader gives it for lines without a year key
CatalogB ==
    [hasYear |-> FALSE,
     rows |-> << Rec(5, "War", "Drama", "Al Roe", "", None, None, None),
                 Rec(4, "Ali", "War", "", "Cy Dow", None, None, None) >>]

Catalogs == {CatalogA, CatalogB}

YearPairs ==
    {<<None, None>>, <<Some(1990), Some(1999)>>, <<Some(1995), Some(1995)>>,
     <<Some(0), Some(9999)>>}
GenreLists == {<<>>, <<"drama", "war">>}
PeopleLists == {<<>>, <<"Al">>}
RawTexts == {"", "alien"}

\* the structured queries handed to search
Queries ==
    {[raised |-> FALSE, raw |-> r, text |-> r, year_from |-> y[1],
      year_to |-> y[2], genres |-> g, people |-> p] :
        r \in RawTexts, y \in YearPairs, g \in GenreLists, p \in PeopleLists}

\* the largest top_k asked for
MaxTopK == 2

\* a table whose titles hold a category word, a year and a person cue
RoundTripCatalog ==
    [hasYear |-> TRUE,
     rows |-> << Rec(1, "Heat", "Crime", "Cy Dow", "Al Roe",
                     Some(1995), Some(81), Some(2000)),
                 Rec(2, "War", "Drama", "Bo Lee", "",
                     Some(2011), None, None),
                 Rec(3, "2012", "Action", "Cy Dow", "",
                     Some(2009), None, None),
                 Rec(4, "by Al", "Drama", "Bo Lee", "Cy Dow",
                     Some(1995), None, None) >>]

\* a table as the JSONL reader gives it, which leaves the values as they
\* are in the file: one record has a rating that is no number
ScoringCatalog ==
    [hasYear |-> TRUE,
     rows |-> << Rec(11, "Up", "Drama", "", "",
                     Some(1995), Some(81), Some(2000)),
                 Rec(12, "Ran", "Drama", "", "",
                     Some(1997), None, None),
                 Rec(13, "Big", "Crime", "", "",
                     Some(1999), Unparseable, Some(2000)) >>]

\* structured queries with year ranges that have records at an edge and at
\* the midpoint, and a single-year query
ScoringQueries ==
    {[raised |-> FALSE, raw |-> r, text |-> r, year_from |-> y[1],
      year_to |-> y[2], genres |-> g, people |-> <<>>] :
        r \in {"", "up"},
        y \in {<<None, None>>, <<Some(1995), Some(1999)>>,
               <<Some(1995), Some(1998)>>, <<Some(1997), Some(1997)>>},
        g \in {<<>>, <<"drama">>}}

\* every piece of a title of that table
TitleQueries ==
    UNION {{SubSeq(RoundTripCatalog.rows[i].title, a, b) :
              a \in 1..Len(RoundTripCatalog.rows[i].title),
              b \in 1..Len(RoundTripCatalog.rows[i].title)} \ {""} :
           i \in 1..Len(RoundTripCatalog.rows)}

(***************************************************************************)
(* The query interpreter on its own: a query is typed word by word at the  *)
(* command surface and parsed once.                                        *)
(***************************************************************************)

\* the longest query typed, in words
MaxWords == 3

\* the words a query is typed from; words are separated by one space
Vocabulary ==
    {"", "early", "late", "90s", "80's", "1990s", "1995", "2005", "to",
     "2005-1995", "1995-2005", "War", "by"}

NotParsed == None
NoDataset == None
NoFile == [exists |-> FALSE, chunks |-> <<>>]
NoBundle == None
NoQuery == None
NoLib == [sim |-> <<>>, ratio |-> <<>>, order |-> <<>>]
NoResult == [status |-> "none", seen |-> NoFile, items |-> <<>>]

InitParse ==
    /\ raw = ""
    /\ nwords = 0
    /\ pq = NotParsed

InitBuild ==
    /\ dataset = NoDataset
    /\ disk = NoFile
    /\ bpc = "idle"
    /\ bmem = NoBundle

InitSearch ==
    /\ spc = "idle"
    /\ query = NoQuery
    /\ topk = 0
    /\ lib = NoLib
    /\ res = NoResult

Init == InitParse /\ InitBuild /\ InitSearch

\* one more word of the query is typed
TypeWord(w) ==
    /\ pq = NotParsed
    /\ spc = "idle"
    /\ nwords < MaxWords
    /\ raw' = IF nwords = 0 THEN w ELSE raw \o " " \o w
    /\ nwords' = nwords + 1
    /\ pq' = pq
    /\ UNCHANGED <<buildVars, searchVars>>

\* parse_query on the text typed
Parse ==
    /\ pq = NotParsed
    /\ spc = "idle"
    /\ pq' = Some(ParseQuery(raw))
    /\ UNCHANGED <<raw, nwords, buildVars, searchVars>>

NextParse ==
    \/ \E w \in Vocabulary : TypeWord(w)
    \/ Parse

SpecParse == Init /\ [][NextParse]_vars

(***************************************************************************)
(* The builder and the searcher, each a process of its own on the same     *)
(* index location                                                          *)
(***************************************************************************)

\* the dataset files are put in place, or replaced
UpdateDataset(c) ==
    /\ bpc = "idle"
    /\ dataset # Some(c)
    /\ dataset' = Some(c)
    /\ UNCHANGED <<disk, bpc, bmem, parseVars, searchVars>>

\* cmd_build: build_index up to joblib.dump; load_movies raises when the
\* dataset files are missing
BuildStart ==
    /\ bpc = "idle"
    /\ IF dataset = NoDataset
       THEN bpc' = "raised" /\ bmem' = bmem
       ELSE bpc' = "dump" /\ bmem' = Some(BuildBundle(dataset[1]))
    /\ UNCHANGED <<dataset, disk, parseVars, searchVars>>

\* joblib.dump opens index.joblib for writing, which empties it
DumpOpen ==
    /\ bpc = "dump"
    /\ disk' = [exists |-> TRUE, chunks |-> <<>>]
    /\ bpc' = "write"
    /\ UNCHANGED <<dataset, bmem, parseVars, searchVars>>

\* joblib.dump writes the next part of the pickle into the open file
DumpWrite ==
    /\ bpc = "write"
    /\ ~IsWholePickle(disk.chunks)
    /\ disk' = [disk EXCEPT !.chunks =
                    Append(@, Pickle(bmem[1])[Len(@) + 1])]
    /\ UNCHANGED <<dataset, bpc, bmem, parseVars, searchVars>>

\* joblib.dump closes the file; build_index, and the command with it, ends
BuildEnd ==
    /\ \/ bpc = "write" /\ IsWholePickle(disk.chunks)
       \/ bpc = "raised"
    /\ bpc' = "idle"
    /\ bmem' = NoBundle
    /\ UNCHANGED <<dataset, disk, parseVars, searchVars>>

\* a caller hands search a structured query and a top_k
Submit(q, k) ==
    /\ spc = "idle"
    /\ query' = Some(q)
    /\ topk' = k
    /\ spc' = "called"
    /\ UNCHANGED <<lib, res, parseVars, buildVars>>

\* cmd_search: parse_query on the text, then the call of search
CmdSearch(text, k) ==
    /\ spc = "idle"
    /\ pq = NotParsed
    /\ raw' = text
    /\ nwords' = nwords
    /\ pq' = Some(ParseQuery(text))
    /\ IF pq'[1].raised
       THEN /\ spc' = "returned"
            /\ res' = [NoResult EXCEPT !.status = "ValueError"]
            /\ UNCHANGED <<query, topk>>
       ELSE /\ spc' = "called"
            /\ query' = pq'
            /\ topk' = k
            /\ res' = res
    /\ UNCHANGED <<lib, buildVars>>

\* search: load_index, then filtering, scoring and ordering on the bundle
\* it returned
Search ==
    /\ spc = "called"
    /\ spc' = "returned"
    /\ \/ /\ ~disk.exists
          /\ res' = [status |-> "FileNotFoundError", seen |-> disk,
                     items |-> <<>>]
          /\ lib' = lib
       \/ /\ disk.exists
          /\ ~IsWholePickle(disk.chunks)
          /\ res' = [status |-> "UnpicklingError", seen |-> disk,
                     items |-> <<>>]
          /\ lib' = lib
       \/ /\ disk.exists
          /\ IsWholePickle(disk.chunks)
          /\ IF MetadataBoostRaises(query[1], Unpickle(disk.chunks),
                    FilterIndices(query[1], Unpickle(disk.chunks)))
             THEN /\ res' = [status |-> "ValueError", seen |-> disk,
                             items |-> <<>>]
                  /\ lib' = lib
             ELSE \E l \in LibChoices(query[1], Unpickle(disk.chunks)) :
                     /\ lib' = l
                     /\ res' = [status |-> "ok", seen |-> disk,
                                items |-> Rank(query[1], topk,
                                               Unpickle(disk.chunks), l)]
    /\ UNCHANGED <<query, topk, parseVars, buildVars>>

\* the caller takes the outcome; the command ends
Return ==
    /\ spc = "returned"
    /\ spc' = "idle"
    /\ query' = NoQuery
    /\ topk' = 0
    /\ lib' = NoLib
    /\ res' = NoResult
    /\ raw' = ""
    /\ nwords' = 0
    /\ pq' = NotParsed
    /\ UNCHANGED buildVars

Build == BuildStart \/ DumpOpen \/ DumpWrite \/ BuildEnd

Next ==
    \/ \E c \in Catalogs : UpdateDataset(c)
    \/ Build
    \/ \E q \in Queries, k \in 0..MaxTopK : Submit(q, k)
    \/ Search
    \/ Return

Spec == Init /\ [][Next]_vars

\* the round trip: the index is built from one table, and the command line
\* searches it with pieces of the titles in that table
InitRoundTrip ==
    /\ InitParse
    /\ dataset = Some(RoundTripCatalog)
    /\ disk = NoFile
    /\ bpc = "idle"
    /\ bmem = NoBundle
    /\ InitSearch

NextRoundTrip ==
    \/ Build
    \/ \E t \in TitleQueries, k \in 1..MaxTopK : CmdSearch(t, k)
    \/ Search
    \/ Return

SpecRoundTrip == InitRoundTrip /\ [][NextRoundTrip]_vars

\* scoring: the index is built from the table with the unparseable rating
\* and searched with the year-range queries
InitScoring ==
    /\ InitParse
    /\ dataset = Some(ScoringCatalog)
    /\ disk = NoFile
    /\ bpc = "idle"
    /\ bmem = NoBundle
    /\ InitSearch

NextScoring ==
    \/ Build
    \/ \E q \in ScoringQueries, k \in 0..MaxTopK : Submit(q, k)
    \/ Search
    \/ Return

SpecScoring == InitScoring /\ [][NextScoring]_vars

\* the year bounds of a parsed query, <<>> for an absent bound
YearBounds(q) == <<q.year_from, q.year_to>>

(***************************************************************************)
(* C5: the date patterns, stated over the text by position                 *)
(***************************************************************************)

IsWordAt(t, i) == i >= 1 /\ i <= Len(t) /\ SubSeq(t, i, i) \in WordChars
AllIn(t, a, b, Class) == \A i \in a..b : Ch(t, i) \in Class
FourDigits(t, p) == p >= 1 /\ p + 3 <= Len(t) /\ AllIn(t, p, p + 3, DigitChars)
NumAt(t, p, n) ==
    IF n = 2 THEN 10 * DigitMap[Ch(t, p)] + DigitMap[Ch(t, p + 1)]
    ELSE 1000 * DigitMap[Ch(t, p)] + 100 * DigitMap[Ch(t, p + 1)]
         + 10 * DigitMap[Ch(t, p + 2)] + DigitMap[Ch(t, p + 3)]

\* two four-digit years at p and l, joined by dashes, t's and o's with
\* optional spaces on both sides
C5_RangeAt(t, p, l) ==
    /\ FourDigits(t, p)
    /\ FourDigits(t, l)
    /\ \E a \in (p + 4)..(l - 1) : \E b \in a..(l - 1) :
          /\ AllIn(t, p + 4, a - 1, SpaceChars)
          /\ AllIn(t, a, b, {"-", "t", "o"})
          /\ AllIn(t, b + 1, l - 1, SpaceChars)

C5_Ranges(t) ==
    LET D4 == {p \in 1..Len(t) : FourDigits(t, p)}
    IN  {x \in D4 \X D4 : C5_RangeAt(t, x[1], x[2])}

\* word ("early" or "late") at p, then spaces, then an n-digit decade at j
\* that ends a word with its "s"
C5_QualifiedAt(t, p, word, j, n) ==
    /\ StartsAt(t, p, word)
    /\ j >= p + Len(word)
    /\ AllIn(t, p + Len(word), j - 1, SpaceChars)
    /\ j + n <= Len(t)
    /\ AllIn(t, j, j + n - 1, DigitChars)
    /\ Ch(t, j + n) = "s"
    /\ ~IsWordAt(t, j + n + 1)

C5_Qualified(t) ==
    LET P == {x \in (1..Len(t)) \X {"early", "late"} : StartsAt(t, x[1], x[2])}
        J == {j \in 1..Len(t) : Ch(t, j) \in DigitChars}
    IN  {x \in (1..Len(t)) \X {"early", "late"} \X J \X {2, 4} :
            /\ <<x[1], x[2]>> \in P
            /\ C5_QualifiedAt(t, x[1], x[2], x[3], x[4])}

\* an n-digit decade token at p: a word of its own, its "s" optionally
\* after an apostrophe
C5_BareAt(t, p, n) ==
    /\ ~IsWordAt(t, p - 1)
    /\ p + n <= Len(t)
    /\ AllIn(t, p, p + n - 1, DigitChars)
    /\ \/ Ch(t, p + n) = "s" /\ ~IsWordAt(t, p + n + 1)
       \/ Ch(t, p + n) = "'" /\ Ch(t, p + n + 1) = "s"
          /\ ~IsWordAt(t, p + n + 2)

C5_Bare(t) == {x \in (1..Len(t)) \X {2, 4} : C5_BareAt(t, x[1], x[2])}

\* a four-digit year 1900-2099 at p, a word of its own
C5_SingleAt(t, p) ==
    /\ ~IsWordAt(t, p - 1)
    /\ FourDigits(t, p)
    /\ NumAt(t, p, 4) \in 1900..2099
    /\ ~IsWordAt(t, p + 4)

C5_Singles(t) == {<<p>> : p \in {r \in 1..Len(t) : C5_SingleAt(t, r)}}

\* the leftmost member of a set of matches, by its start
Leftmost(S) == CHOOSE x \in S : \A y \in S : x[1] <= y[1]
Century(v) == IF v < 100 THEN 1900 + v ELSE v

\* the bounds the priority order gives the text t
C5_Expected(t) ==
    LET R == C5_Ranges(t)
        Q == C5_Qualified(t)
        B == C5_Bare(t)
        S == C5_Singles(t)
    IN  IF R # {} THEN
            LET x == Leftmost(R)
                a == NumAt(t, x[1], 4)
                b == NumAt(t, x[2], 4)
            IN  IF a <= b THEN <<Some(a), Some(b)>> ELSE <<Some(b), Some(a)>>
        ELSE IF Q # {} THEN
            LET x == Leftmost(Q)
                d == Century(NumAt(t, x[3], x[4]))
            IN  IF x[2] = "early" THEN <<Some(d), Some(d + 4)>>
                ELSE <<Some(d + 5), Some(d + 9)>>
        ELSE IF B # {} THEN
            LET x == Leftmost(B)
                d == Century(NumAt(t, x[1], x[2]))
            IN  <<Some(d), Some(d + 9)>>
        ELSE IF S # {} THEN
            LET y == NumAt(t, Leftmost(S)[1], 4)
            IN  <<Some(y), Some(y)>>
        ELSE <<None, None>>

C5_Examples ==
    /\ raw = "90s" => YearBounds(pq[1]) = <<Some(1990), Some(1999)>>
    /\ raw = "early 90s" => YearBounds(pq[1]) = <<Some(1990), Some(1994)>>
    /\ raw = "late 90s" => YearBounds(pq[1]) = <<Some(1995), Some(1999)>>
    /\ raw = "80's" => YearBounds(pq[1]) = <<Some(1980), Some(1989)>>
    /\ raw = "1990s" => YearBounds(pq[1]) = <<Some(1990), Some(1999)>>
    /\ raw = "1995" => YearBounds(pq[1]) = <<Some(1995), Some(1995)>>

\* C5: the bounds parse returns are those of the first pattern, in the order
\* explicit range, early/late decade, bare decade, single year, that occurs
\* in the lowercased, trimmed text: a bare decade gives start..start+9, early
\* start..start+4, late start+5..start+9, a value below 100 is in the 1900s,
\* a single year is both bounds; "90s", "early 90s", "late 90s" and "80's"
\* give (1990, 1999), (1990, 1994), (1995, 1999) and (1980, 1989).
C5_DatePriority ==
    pq # NotParsed =>
        /\ LET t == Lower(Strip(raw))
           IN  YearBounds(pq[1]) = C5_Expected(t)
        /\ C5_Examples

\* a qualified decade decided the bounds although a bare decade and a single
\* year stand before it in the text
C5_Witness ==
    /\ raw = "90s late 1990s"
    /\ pq # NotParsed
    /\ YearBounds(pq[1]) = <<Some(1995), Some(1999)>>

(***************************************************************************)
(* C6                                                                      *)
(***************************************************************************)

\* C6: whenever parse returns both bounds, year_from <= year_to; the explicit
\* ranges "1995-2005" and "2005 to 1995" both give (1995, 2005).
C6_BoundsOrdered ==
    pq # NotParsed =>
        /\ (pq[1].year_from # None /\ pq[1].year_to # None)
              => pq[1].year_from[1] <= pq[1].year_to[1]
        /\ raw \in {"1995-2005", "2005 to 1995"}
              => YearBounds(pq[1]) = <<Some(1995), Some(2005)>>

\* a range typed with its years reversed came out in order
C6_Witness ==
    /\ raw = "2005 to 1995"
    /\ pq # NotParsed
    /\ YearBounds(pq[1]) = <<Some(1995), Some(2005)>>

(***************************************************************************)
(* C7                                                                      *)
(***************************************************************************)

\* C7: parse returns for every input without raising, with the raw text
\* unchanged in the result; for an empty or whitespace-only input the bounds
\* are null and the category and person lists are empty.
C7_ParseTotal ==
    pq # NotParsed =>
        /\ ~pq[1].raised
        /\ pq[1].raw = raw
        /\ IsBlank(raw) =>
              /\ pq[1].year_from = None
              /\ pq[1].year_to = None
              /\ pq[1].genres = <<>>
              /\ pq[1].people = <<>>

\* a whitespace-only query was parsed
C7_Witness ==
    /\ raw = "  "
    /\ pq # NotParsed
    /\ pq[1].raw = "  "
    /\ pq[1].genres = <<>>

(***************************************************************************)
(* The ranking engine's claims                                             *)
(***************************************************************************)

\* a search has returned a result list
ReturnedOk == spc = "returned" /\ res.status = "ok"

\* the bundle the last search loaded
Loaded == Unpickle(res.seen.chunks)

\* the rows that survived the last search's filtering
Survivors == FilterIndices(query[1], Loaded)

\* the fraction <<n, d>> as a number in [0, 1], equal to 1, equal to 0
InUnit(f) == f[2] > 0 /\ 0 <= f[1] /\ f[1] <= f[2]
IsOne(f) == f[2] > 0 /\ f[1] = f[2]
IsZero(f) == f[2] > 0 /\ f[1] = 0
\* f >= g, f = g for fractions with positive denominators
FracGeq(f, g) == f[1] * g[2] >= g[1] * f[2]
FracEq(f, g) == f[1] * g[2] = g[1] * f[2]

\* the blended score of row i before normalization, from that row's own
\* matrix row (through lib.sim), title and metadata
RowBlended(q, bundle, i, l) ==
    LET row == bundle.meta.rows[i]
    IN  400 * YearDen(q) * l.sim[i]
        + SimMax * YearDen(q) * (IF Strip(q.raw) = "" THEN 0 ELSE l.ratio[i])
        + 4 * SimMax * (YearDen(q) * (GenreBoost(q, row) + PeopleBoost(q, row)
                                      + RatingBoost(row))
                        + YearBoost(q, bundle.meta, row))

\* the largest blended score among the survivors
TopBlended ==
    LET B == {RowBlended(query[1], Loaded, Survivors[k], lib) :
                k \in 1..Len(Survivors)}
    IN  CHOOSE m \in B : \A b \in B : b <= m

\* the claim's reading of the filters, on a returned record
C1_Satisfies(q, item) ==
    /\ q.year_from # None =>
          item.year # None /\ item.year[1] >= q.year_from[1]
    /\ q.year_to # None =>
          item.year # None /\ item.year[1] <= q.year_to[1]
    /\ q.genres # <<>> =>
          \E k \in 1..Len(q.genres) : Contains(item.genres, q.genres[k])
    /\ q.people # <<>> =>
          \E k \in 1..Len(q.people) :
              \/ Contains(Lower(item.director), Lower(q.people[k]))
              \/ Contains(Lower(item.actors), Lower(q.people[k]))

\* C1 as claimed: every returned record has a year >= year_from and <=
\* year_to when these are set, a requested category as a substring of its
\* category field, and a requested person as a case-insensitive substring of
\* its director or cast field.
C1_HardFiltersAsClaimed ==
    ReturnedOk =>
        \A k \in 1..Len(res.items) : C1_Satisfies(query[1], res.items[k])

\* the filters as the engine evaluates them, on a returned record
C1_SatisfiesEvaluated(q, meta, item) ==
    /\ (q.year_from # None /\ meta.hasYear) =>
          (IF item.year = None THEN 0 ELSE item.year[1]) >= q.year_from[1]
    /\ (q.year_to # None /\ meta.hasYear) =>
          (IF item.year = None THEN 9999 ELSE item.year[1]) <= q.year_to[1]
    /\ q.genres # <<>> =>
          \E k \in 1..Len(q.genres) :
              Contains(Lower(item.genres), q.genres[k])
    /\ q.people # <<>> =>
          \E k \in 1..Len(q.people) :
              \/ Contains(Lower(item.director), Lower(q.people[k]))
              \/ Contains(Lower(item.actors), Lower(q.people[k]))

\* C1, amended: every returned record satisfies all active filters at once,
\* where the year bounds compare the record's year with a missing year read
\* as 0 for year_from and as 9999 for year_to (and bind only when the
\* metadata table has a year column), a requested category is a substring of
\* the lower-cased category field, and a requested person is a
\* case-insensitive substring of the director or cast field.
C1_HardFilters ==
    ReturnedOk =>
        \A k \in 1..Len(res.items) :
            C1_SatisfiesEvaluated(query[1], Loaded.meta, res.items[k])

\* a record came back for a query with every filter active
C1_Witness ==
    /\ ReturnedOk
    /\ Len(res.items) >= 1
    /\ query[1].year_from = Some(1990)
    /\ query[1].year_to = Some(1999)
    /\ query[1].genres # <<>>
    /\ query[1].people # <<>>
    /\ res.items[1].year = Some(1995)

\* C2 as claimed: a non-empty result list starts with score 1.0 and holds
\* only scores in [0, 1], also when every blended score is 0.
C2_TopIsOneAsClaimed ==
    (ReturnedOk /\ res.items # <<>>) =>
        /\ IsOne(res.items[1].score)
        /\ \A k \in 1..Len(res.items) : InUnit(res.items[k].score)

\* C2, amended: in a non-empty result list every score is in [0, 1]; the
\* first score is 1.0 when some survivor's blended score is above 0, and
\* every score is 0 when all blended scores are 0.
C2_TopIsOne ==
    (ReturnedOk /\ res.items # <<>>) =>
        /\ \A k \in 1..Len(res.items) : InUnit(res.items[k].score)
        /\ TopBlended > 0 => IsOne(res.items[1].score)
        /\ TopBlended = 0 =>
              \A k \in 1..Len(res.items) : IsZero(res.items[k].score)

\* two results came back, the first with score 1.0 and the second with a
\* smaller score above 0
C2_Witness ==
    /\ ReturnedOk
    /\ Len(res.items) = 2
    /\ IsOne(res.items[1].score)
    /\ res.items[2].score[1] > 0
    /\ ~IsOne(res.items[2].score)

\* C3: the result list is in descending order of blended score, records of
\* equal score are in row order, and the list is the first min(topK,
\* survivors) entries of that ordering.
C3_StableDescending ==
    ReturnedOk =>
        LET items == res.items
            In == {items[k].idx : k \in 1..Len(items)}
            Out == {Survivors[k] : k \in 1..Len(Survivors)} \ In
            B(i) == RowBlended(query[1], Loaded, i, lib)
        IN  /\ Len(items) =
                 IF topk < Len(Survivors) THEN topk ELSE Len(Survivors)
            /\ \A a, b \in 1..Len(items) :
                  a < b =>
                      /\ FracGeq(items[a].score, items[b].score)
                      /\ FracEq(items[a].score, items[b].score)
                            => items[a].idx < items[b].idx
            /\ \A i \in In, o \in Out :
                  B(i) > B(o) \/ (B(i) = B(o) /\ i < o)

\* C8: search fails with the index-unavailable error exactly when no whole
\* bundle is stored at the index location, and with a bundle and no
\* survivor it returns the empty list.
C8_IndexUnavailable ==
    spc = "returned" =>
        /\ res.status = "FileNotFoundError"
              <=> ~(res.seen.exists /\ IsWholePickle(res.seen.chunks))
        /\ (res.seen.exists /\ IsWholePickle(res.seen.chunks)
              /\ Survivors = <<>>)
              => (res.status = "ok" /\ res.items = <<>>)

\* every record of the catalogs, and the one with a given id
AllRecords == UNION {{c.rows[i] : i \in 1..Len(c.rows)} : c \in Catalogs}
RecordById(id) == CHOOSE r \in AllRecords : r.id = id

\* row i of the matrix was computed from the record row i of the metadata
\* table describes
Aligned(bundle) ==
    /\ Len(bundle.matrix) = Len(bundle.meta.rows)
    /\ \A i \in 1..Len(bundle.meta.rows) :
          bundle.matrix[i] = WeightedText(RecordById(bundle.meta.rows[i].id))

\* C9: every bundle the builder holds, every whole bundle in the index file
\* and every bundle a search loaded is aligned, and each result carries the
\* display fields of its row together with the normalized blended score
\* computed from that row's matrix row, title and metadata.
C9_Alignment ==
    /\ bmem # NoBundle => Aligned(bmem[1])
    /\ (disk.exists /\ IsWholePickle(disk.chunks))
          => Aligned(Unpickle(disk.chunks))
    /\ ReturnedOk =>
          /\ Aligned(Loaded)
          /\ \A k \in 1..Len(res.items) :
                LET it == res.items[k]
                    row == Loaded.meta.rows[it.idx]
                IN  /\ it.movie_id = row.id
                    /\ it.title = row.title
                    /\ it.genres = row.genres
                    /\ it.director = row.director
                    /\ it.actors = row.actors
                    /\ it.score[1] =
                          RowBlended(query[1], Loaded, it.idx, lib)
                    /\ it.score[2] =
                          IF TopBlended > 0 THEN TopBlended
                          ELSE ScoreDen(query[1])

\* a search over a reloaded bundle skipped row 1 and returned row 2 first
\* and row 3 after it
C9_Witness ==
    /\ ReturnedOk
    /\ Len(Loaded.matrix) = 3
    /\ Len(res.items) = 2
    /\ res.items[1].idx = 3
    /\ res.items[2].idx = 2
    /\ res.items[1].movie_id = 9

\* C10: whatever a search reads at the index location is no file, or a whole
\* bundle that some build wrote; it is never a partly written file.
C10_AtomicWrite ==
    spc = "returned" =>
        \/ ~res.seen.exists
        \/ /\ IsWholePickle(res.seen.chunks)
           /\ \E c \in Catalogs : Loaded = BuildBundle(c)

\* the rows of the loaded table whose title holds the text searched for
TitleRows ==
    {i \in 1..Len(Loaded.meta.rows) : Contains(Loaded.meta.rows[i].title, raw)}

\* row i passed the filters parse extracted from the text
Survives(i) == \E k \in 1..Len(Survivors) : Survivors[k] = i

\* the text scorer gave its largest score to row i, if it scored it, and 0
\* to every other row
TextFavours(i) ==
    \A j \in DOMAIN lib.sim : lib.sim[j] = (IF j = i THEN SimMax ELSE 0)

\* C4 as claimed: after a build, searching with the parse of a piece of one
\* record's title returns that record first with score 1.0. Stated for the
\* pieces that occur in one title only and for the text scores that favour
\* the record most.
C4_RoundTripAsClaimed ==
    (ReturnedOk /\ pq # NotParsed) =>
        \A i \in TitleRows :
            (TitleRows = {i} /\ TextFavours(i)) =>
                /\ res.items # <<>>
                /\ res.items[1].idx = i
                /\ IsOne(res.items[1].score)

\* C4, amended: for a non-blank piece of a record's title and topK >= 1, a
\* record that fails the filters parse extracts from the piece is not
\* returned; one that passes them has the largest title-match score (partial
\* ratio 100), the list is non-empty and starts with score 1.0, and the
\* record is first when its blended score is above every other survivor's.
C4_RoundTrip ==
    (ReturnedOk /\ pq # NotParsed /\ ~IsBlank(raw) /\ topk >= 1) =>
        \A i \in TitleRows :
            IF Survives(i)
            THEN /\ lib.ratio[i] = 100
                 /\ res.items # <<>>
                 /\ IsOne(res.items[1].score)
                 /\ (\A j \in DOMAIN lib.sim \ {i} :
                        RowBlended(query[1], Loaded, i, lib)
                            > RowBlended(query[1], Loaded, j, lib))
                       => res.items[1].idx = i
            ELSE \A k \in 1..Len(res.items) : res.items[k].idx # i

\* the piece "H" of the title "Heat" was searched for and the record came
\* first with score 1.0, ahead of another survivor
C4_Witness ==
    /\ ReturnedOk
    /\ raw = "H"
    /\ Len(res.items) = 2
    /\ res.items[1].title = "Heat"
    /\ IsOne(res.items[1].score)

\* C11: a failure while scoring one candidate (an unparseable rating or
\* vote count) does not abort the search: with a whole bundle loaded the
\* search returns a list of min(topK, survivors) results, each with the
\* blended score of its row in which a failing signal counts as zero.
C11_ScoringTolerance ==
    (spc = "returned" /\ res.seen.exists /\ IsWholePickle(res.seen.chunks)) =>
        /\ res.status = "ok"
        /\ Len(res.items) =
              IF topk < Len(Survivors) THEN topk ELSE Len(Survivors)
        /\ \A k \in 1..Len(res.items) :
              res.items[k].score[1] =
                  RowBlended(query[1], Loaded, res.items[k].idx, lib)

\* C12: for a query with year_from < year_to, the year bonus of a returned
\* record with a known year is 0.2 at the range midpoint, falls linearly with
\* the distance from the midpoint, and is 0 when the year equals year_from
\* or year_to; for year_from = year_to it is a flat 0.2. The bonus is
\* YearBoost / (100 * YearDen), so 0.2 is YearBoost = 20 * YearDen.
C12_YearBonus ==
    (ReturnedOk /\ query[1].year_from # None /\ query[1].year_to # None) =>
        \A k \in 1..Len(res.items) :
            LET q == query[1]
                row == Loaded.meta.rows[res.items[k].idx]
                yb == YearBoost(q, Loaded.meta, row)
                width == q.year_to[1] - q.year_from[1]
                twice == Abs(2 * row.year[1] - q.year_from[1] - q.year_to[1])
            IN  row.year # None =>
                    IF width = 0 THEN yb = 20
                    ELSE /\ twice = 0 => yb = 20 * YearDen(q)
                         /\ yb * width = 20 * YearDen(q) * (width - twice)
                         /\ (row.year = q.year_from \/ row.year = q.year_to)
                               => yb = 0

====
